---- MODULE Spec2Model ----
(***************************************************************************)
(* ChatX browser client (src/app.js): identity restore and login, the      *)
(* WebSocket connection and its join handshake, the composer, the          *)
(* debounced collaborative search and the presence list.                   *)
(*                                                                         *)
(* The client is single-threaded and event-driven: every action below is   *)
(* one event handler (or one continuation after an await) run to its end.  *)
(* Texts are sequences of one-character strings, so that trim() and the    *)
(* case-insensitive substring match are computed, not assumed.             *)
(***************************************************************************)
EXTENDS Integers, Sequences, FiniteSets, TLC

VARIABLES
    started,            \* the script's top-level code (restore, line 192) has run
    saved,              \* sessionStorage item 'chatX_user'
    me,                 \* let me (line 43); isNull: the variable holds JS null
    loginModalHidden,   \* loginModal.style.display = 'none'
    loginsPending,      \* POST /login requests awaiting their response
    ws,                 \* let ws (line 42): 0 is null, else index of a socket
    readyState,         \* readyState of every WebSocket created, by creation order
    opened,             \* sockets whose 'open' event has been dispatched
    connEmail,          \* per socket: me.email when connect() created it
    sent,               \* per socket: envelopes the socket accepted for transmission
    lastSend,           \* the ws.send() call made by the last handler, if any
    messageInput,       \* messageInput.value
    transcript,         \* children of messagesEl, appended by addMessage
    inboundMsgs,        \* inbound frames dispatched as message envelopes so far
    memberSearch,       \* memberSearch.value
    onlineDebounce,     \* let onlineDebounce (line 225): 0 is null, else a timer id
    timers,             \* pending setTimeout tasks
    nextTimerId,        \* id the next setTimeout call returns
    sinceInput,         \* time since the last local search-input change
    lastInput,          \* value of the search field at its last local change
    changes,            \* local search-input changes in the current burst
    burstSends,         \* search envelopes sent in the current burst
    burstOpen,          \* ws was OPEN in every state of the current burst
    lastSearch,         \* last search envelope sent, with sinceInput at that time
    fetches,            \* GET /online requests in flight, with their filter
    rendered,           \* content of onlineList
    lastDone,           \* entries and filter of the fetch that completed last
    activeElement,      \* document.activeElement
    lastFrame,          \* the inbound frame dispatched by the last handler, if any
    lastOp,             \* the handler that ran last
    alertMsg,           \* alert() shown by the last handler, "" if none
    uncaught            \* the last handler ended in an exception nothing caught

identityVars == <<started, saved, me, loginModalHidden, loginsPending>>
connVars == <<ws, readyState, opened, connEmail, sent>>
composerVars == <<messageInput, transcript, inboundMsgs>>
timerVars == <<onlineDebounce, timers, nextTimerId>>
burstVars == <<sinceInput, lastInput, changes, burstSends, burstOpen, lastSearch>>
presenceVars == <<fetches, rendered, lastDone>>
vars == <<identityVars, connVars, lastSend, composerVars, memberSearch, timerVars,
          burstVars, presenceVars, activeElement, lastFrame, lastOp, alertMsg, uncaught>>

(***************************************************************************)
(* Bounds of the explored behaviours.                                      *)
(***************************************************************************)
MaxSockets == 2     \* WebSocket instances created in one page session
MaxSent == 3        \* envelopes accepted by all sockets together
MaxInbound == 2     \* inbound message envelopes dispatched
MaxTimers == 3      \* setTimeout calls
ComposeMaxSockets == 1  \* WebSocket instances in the composer scenario
ComposeMaxSent == 2     \* envelopes accepted in the composer scenario
ComposeMaxInbound == 1  \* inbound message envelopes in the composer scenario
SearchMaxSockets == 1   \* WebSocket instances in the search scenario
TimeStep == 90      \* granularity of time in the search scenario
ConnMaxTimers == 1  \* setTimeout calls in the connection scenario
MirrorMaxTimers == 2    \* setTimeout calls in the mirror scenario
PresenceMaxFetches == 2 \* GET /online requests in flight in the presence scenario

DebounceDelay == 180

(***************************************************************************)
(* Values.                                                                 *)
(***************************************************************************)
Null == "null"
Undefined == "undefined"
Emails == {"a@x.com", "b@x.com"}
\* the accounts the backend answers a login with: {email, display_name}
Accounts ==
    { [email |-> "a@x.com", display_name |-> "Al"],
      [email |-> "b@x.com", display_name |-> Undefined] }

\* texts a user types: empty, blank, plain, and with leading or trailing blanks
Texts == {<<>>, <<" ">>, <<"a">>, <<" ", "a">>, <<"a", " ">>}
ShortTexts == {<<>>, <<"a">>}

\* JS truthiness of a string-or-absent value
Falsy(v) == v \in {Null, Undefined, ""}

\* String.prototype.trim
RECURSIVE TrimStart(_)
TrimStart(s) ==
    IF s = <<>> THEN s
    ELSE IF Head(s) = " " THEN TrimStart(Tail(s)) ELSE s

RECURSIVE TrimEnd(_)
TrimEnd(s) ==
    IF s = <<>> THEN s
    ELSE IF s[Len(s)] = " " THEN TrimEnd(SubSeq(s, 1, Len(s) - 1)) ELSE s

trim(s) == TrimEnd(TrimStart(s))

\* data.email.split('@')[0] on the e-mail addresses of the model
LocalPart(e) ==
    CASE e = "a@x.com" -> "a"
      [] e = "b@x.com" -> "b"
      [] OTHER -> e

(***************************************************************************)
(* sessionStorage and JSON.  A stored text is one of: absent (getItem      *)
(* returns null), the empty string, an unparseable text, the text "null",  *)
(* or the text of an object whose email and name may be missing.           *)
(***************************************************************************)
SavedText(kind, email, name) == [kind |-> kind, email |-> email, name |-> name]

SavedInputs ==
    { SavedText("absent", Undefined, Undefined),
      SavedText("empty", Undefined, Undefined),
      SavedText("garbage", Undefined, Undefined),
      SavedText("null", Undefined, Undefined),
      SavedText("object", Undefined, Undefined),
      SavedText("object", "a@x.com", "a") }

\* JSON.parse(saved): ok = FALSE when it throws
JSONparse(text) ==
    CASE text.kind = "object" ->
            [ok |-> TRUE, value |-> [isNull |-> FALSE, email |-> text.email, name |-> text.name]]
      [] text.kind = "null" ->
            [ok |-> TRUE, value |-> [isNull |-> TRUE, email |-> Undefined, name |-> Undefined]]
      [] OTHER ->
            [ok |-> FALSE, value |-> [isNull |-> TRUE, email |-> Undefined, name |-> Undefined]]

\* JSON.stringify(me) of a non-null me
JSONstringify(m) == SavedText("object", m.email, m.name)

(***************************************************************************)
(* WebSocket.  send() on a CONNECTING socket throws InvalidStateError, on  *)
(* an OPEN socket queues the data, on a CLOSING or CLOSED socket discards  *)
(* it silently.                                                            *)
(***************************************************************************)
NoSend == [sock |-> 0, state |-> "NONE", result |-> "none", env |-> [type |-> "none"]]

SendCall(s, rs, env) ==
    [sock |-> s, state |-> rs[s],
     result |-> CASE rs[s] = "CONNECTING" -> "throw"
                  [] rs[s] = "OPEN" -> "queued"
                  [] OTHER -> "discarded",
     env |-> env]

SentAfter(s, rs, env) ==
    IF rs[s] = "OPEN" THEN [sent EXCEPT ![s] = Append(@, env)] ELSE sent

WsIsOpen(w, rs) == w # 0 /\ rs[w] = "OPEN"

JoinEnvelope == [type |-> "join", email |-> me.email, name |-> me.name]
MessageEnvelope(text) == [type |-> "message", email |-> me.email, name |-> me.name, text |-> text]
SearchEnvelope(v) == [type |-> "search", query |-> v, from |-> me.email]

\* An inbound frame (ev.data): kind is "garbage" (unparseable text), "null"
\* (the JSON text null), or the type of the object it parses to; email is its
\* email (message) or from (search) field, name its name field, text its text
\* or query field; a field the object lacks is Undefined.
Frame(kind, email, name, text) == [kind |-> kind, email |-> email, name |-> name, text |-> text]

\* afterDrop: the handler before this one dropped a frame on the same socket
NoFrame == [sock |-> 0, frame |-> Frame("none", Undefined, Undefined, <<>>), afterDrop |-> FALSE]

\* A GET /online in flight and the filter its render will use; overtaken: a
\* request started after this one has already completed
FetchCall(hasFilter, filter) == [hasFilter |-> hasFilter, filter |-> filter, overtaken |-> FALSE]

\* a refresh that forgets the filter it was called with
fetchAndRenderOnline_NoFilter(hasFilter, filter) ==
    fetches' = Append(fetches, FetchCall(FALSE, <<>>))

\* fetchAndRenderOnline(filter) up to its await: the request is in flight
fetchAndRenderOnline(hasFilter, filter) ==
    fetches' = Append(fetches, FetchCall(hasFilter, filter))

\* burstOpen follows every change of ws and of the sockets' states
TrackBurst(w, rs) == burstOpen' = (burstOpen /\ WsIsOpen(w, rs))

\* connect(): a new socket in CONNECTING, bound to the global ws
connect ==
    /\ readyState' = Append(readyState, "CONNECTING")
    /\ sent' = Append(sent, <<>>)
    /\ connEmail' = Append(connEmail, me'.email)
    /\ ws' = Len(readyState) + 1
    /\ UNCHANGED opened

Init ==
    /\ started = FALSE
    /\ saved \in SavedInputs
    /\ me = [isNull |-> FALSE, email |-> Null, name |-> Null]
    /\ loginModalHidden = FALSE
    /\ loginsPending = 0
    /\ ws = 0
    /\ readyState = <<>>
    /\ opened = {}
    /\ connEmail = <<>>
    /\ sent = <<>>
    /\ lastSend = NoSend
    /\ messageInput = <<>>
    /\ transcript = <<>>
    /\ inboundMsgs = 0
    /\ memberSearch = <<>>
    /\ onlineDebounce = 0
    /\ timers = {}
    /\ nextTimerId = 1
    /\ sinceInput = DebounceDelay
    /\ lastInput = <<>>
    /\ changes = 0
    /\ burstSends = 0
    /\ burstOpen = FALSE
    /\ lastSearch = [query |-> <<>>, since |-> 0]
    /\ fetches = <<>>
    /\ rendered = [placeholder |-> FALSE, rows |-> <<>>]
    /\ lastDone = [done |-> FALSE, list |-> <<>>, f |-> FetchCall(FALSE, <<>>)]
    /\ activeElement = "body"
    /\ lastFrame = NoFrame
    /\ lastOp = "load"
    /\ alertMsg = ""
    /\ uncaught = FALSE

(***************************************************************************)
(* Session restore, run once when the script loads.                        *)
(***************************************************************************)
Restore ==
    /\ ~started
    /\ started' = TRUE
    /\ lastOp' = "restore"
    /\ lastFrame' = NoFrame
    /\ UNCHANGED activeElement
    /\ uncaught' = FALSE
    /\ alertMsg' = ""
    /\ lastSend' = NoSend
    /\ LET p == JSONparse(saved) IN
       IF saved.kind \in {"absent", "empty"} \/ ~p.ok
       THEN \* if (saved) is false, or JSON.parse threw before me was assigned
            UNCHANGED <<me, loginModalHidden, connVars, burstOpen>>
       ELSE IF p.value.isNull
       THEN \* me = null; the modal is hidden; me.name throws; catch (e) { }
            /\ me' = p.value
            /\ loginModalHidden' = TRUE
            /\ UNCHANGED <<connVars, burstOpen>>
       ELSE /\ me' = p.value
            /\ loginModalHidden' = TRUE
            /\ connect
            /\ TrackBurst(ws', readyState')
    /\ UNCHANGED <<saved, loginsPending, composerVars, memberSearch, timerVars,
                   sinceInput, lastInput, changes, burstSends, lastSearch, presenceVars>>

(***************************************************************************)
(* Login.  The click handler up to its await, then its continuation.       *)
(***************************************************************************)
LoginClick(haveCredentials) ==
    /\ started
    /\ lastOp' = "loginClick"
    /\ lastFrame' = NoFrame
    /\ UNCHANGED activeElement
    /\ uncaught' = FALSE
    /\ lastSend' = NoSend
    /\ IF ~haveCredentials
       THEN /\ alertMsg' = "Please provide both email and password"
            /\ UNCHANGED loginsPending
       ELSE /\ alertMsg' = ""
            /\ loginsPending' = loginsPending + 1
    /\ UNCHANGED <<started, saved, me, loginModalHidden, connVars, composerVars,
                   memberSearch, timerVars, burstVars, presenceVars>>

\* A response: kind "error" (non-2xx, network failure or invalid JSON), "plain"
\* (2xx, not JSON: data = {success: true}), "null" (2xx, JSON null) or "json"
\* (2xx, JSON object with email and optional display_name).
LoginResponses ==
    { [kind |-> k, email |-> Undefined, display_name |-> Undefined] : k \in {"error", "plain", "null"} }
    \cup { [kind |-> "json", email |-> a.email, display_name |-> a.display_name] : a \in Accounts }

LoginResponse(resp) ==
    /\ started
    /\ loginsPending > 0
    /\ loginsPending' = loginsPending - 1
    /\ lastOp' = "loginResponse"
    /\ lastFrame' = NoFrame
    /\ UNCHANGED activeElement
    /\ uncaught' = FALSE
    /\ lastSend' = NoSend
    /\ IF resp.kind \in {"error", "null"} \/ me.isNull
       THEN \* thrown before or at the assignment me.email = data.email
            /\ alertMsg' = "Login failed"
            /\ UNCHANGED <<saved, me, loginModalHidden, connVars, burstOpen>>
       ELSE IF resp.kind = "plain"
       THEN \* me.email = undefined, then data.email.split throws
            /\ me' = [me EXCEPT !.email = Undefined]
            /\ alertMsg' = "Login failed"
            /\ UNCHANGED <<saved, loginModalHidden, connVars, burstOpen>>
       ELSE /\ me' = [isNull |-> FALSE, email |-> resp.email,
                      name |-> IF Falsy(resp.display_name)
                               THEN LocalPart(resp.email) ELSE resp.display_name]
            /\ saved' = JSONstringify(me')
            /\ loginModalHidden' = TRUE
            /\ alertMsg' = ""
            /\ connect
            /\ TrackBurst(ws', readyState')
    /\ UNCHANGED <<started, composerVars, memberSearch, timerVars,
                   sinceInput, lastInput, changes, burstSends, lastSearch, presenceVars>>

(***************************************************************************)
(* Socket events.                                                          *)
(***************************************************************************)
\* an 'open' listener that refreshes the list but sends no join
OnOpen_NoJoin(s, rs) ==
    /\ lastSend' = NoSend
    /\ UNCHANGED sent
    /\ fetchAndRenderOnline(FALSE, <<>>)

\* the 'open' listener of socket s (lines 58-64); rs is the sockets' state
\* when it runs.  It sends on the global ws, whichever socket that is.
OnOpen(s, rs) ==
    IF me.isNull
    THEN /\ lastSend' = NoSend
         /\ UNCHANGED <<sent, fetches>>
    ELSE /\ lastSend' = SendCall(ws, rs, JoinEnvelope)
         /\ sent' = SentAfter(ws, rs, JoinEnvelope)
         /\ IF rs[ws] = "CONNECTING"
            THEN UNCHANGED fetches      \* send threw: the listener ends here
            ELSE fetchAndRenderOnline(FALSE, <<>>)

SocketOpen(s) ==
    /\ s \in 1..Len(readyState)
    /\ readyState[s] = "CONNECTING"
    /\ readyState' = [readyState EXCEPT ![s] = "OPEN"]
    /\ opened' = opened \cup {s}
    /\ OnOpen(s, readyState')
    /\ TrackBurst(ws, readyState')
    /\ lastOp' = "open"
    /\ lastFrame' = NoFrame
    /\ UNCHANGED activeElement
    /\ uncaught' = (lastSend'.result = "throw")
    /\ alertMsg' = ""
    /\ UNCHANGED <<identityVars, ws, connEmail, composerVars, memberSearch, timerVars,
                   sinceInput, lastInput, changes, burstSends, lastSearch, rendered, lastDone>>

\* the closing handshake starts on an open socket (no listener for it)
SocketClosing(s) ==
    /\ s \in 1..Len(readyState)
    /\ readyState[s] = "OPEN"
    /\ readyState' = [readyState EXCEPT ![s] = "CLOSING"]
    /\ TrackBurst(ws, readyState')
    /\ lastOp' = "closing"
    /\ lastFrame' = NoFrame
    /\ UNCHANGED activeElement
    /\ uncaught' = FALSE
    /\ alertMsg' = ""
    /\ lastSend' = NoSend
    /\ UNCHANGED <<identityVars, ws, opened, connEmail, sent, composerVars, memberSearch,
                   timerVars, sinceInput, lastInput, changes, burstSends, lastSearch,
                   presenceVars>>

\* 'error' and 'close' (lines 79-80): the listeners only log
SocketClose(s) ==
    /\ s \in 1..Len(readyState)
    /\ readyState[s] # "CLOSED"
    /\ readyState' = [readyState EXCEPT ![s] = "CLOSED"]
    /\ TrackBurst(ws, readyState')
    /\ lastOp' = "close"
    /\ lastFrame' = NoFrame
    /\ UNCHANGED activeElement
    /\ uncaught' = FALSE
    /\ alertMsg' = ""
    /\ lastSend' = NoSend
    /\ UNCHANGED <<identityVars, ws, opened, connEmail, sent, composerVars, memberSearch,
                   timerVars, sinceInput, lastInput, changes, burstSends, lastSearch,
                   presenceVars>>

(***************************************************************************)
(* Composer.                                                               *)
(***************************************************************************)
\* the user edits the message field
TypeMessage(t) ==
    /\ started
    /\ messageInput' = t
    /\ lastOp' = "typeMessage"
    /\ lastFrame' = NoFrame
    /\ UNCHANGED activeElement
    /\ alertMsg' = ""
    /\ uncaught' = FALSE
    /\ lastSend' = NoSend
    /\ UNCHANGED <<identityVars, connVars, transcript, inboundMsgs, memberSearch,
                   timerVars, burstVars, presenceVars>>

\* a submit that checks the raw text
SubmitText_NoTrim(raw) == raw

\* const text = messageInput.value.trim()
SubmitText(raw) == trim(raw)

\* addMessage({from, name, text, ts, meFlag})
addMessage(from, name, text, meFlag) ==
    Append(transcript, [from |-> from, name |-> name, text |-> text, meFlag |-> meFlag])

\* the sender an entry shows: `${name || from}` (line 49)
DisplayName(entry) == IF Falsy(entry.name) THEN entry.from ELSE entry.name

\* what the children of messagesEl show
transcriptShown ==
    [i \in 1..Len(transcript) |->
        [display |-> DisplayName(transcript[i]), text |-> transcript[i].text,
         meFlag |-> transcript[i].meFlag]]

\* a submit that echoes the message locally
TranscriptAfterSubmit_Echo(text) == addMessage(me.email, me.name, text, TRUE)

\* the transcript after a submit that got past the two checks: the handler does
\* not call addMessage (line 259), the message comes back through the socket
TranscriptAfterSubmit(text) == transcript

ComposerSubmit ==
    /\ started
    /\ lastOp' = "submit"
    /\ lastFrame' = NoFrame
    /\ UNCHANGED activeElement
    /\ IF me.isNull
       THEN \* me.email throws a TypeError
            /\ uncaught' = TRUE
            /\ alertMsg' = ""
            /\ lastSend' = NoSend
            /\ UNCHANGED <<sent, messageInput, transcript>>
       ELSE IF Falsy(me.email)
       THEN /\ uncaught' = FALSE
            /\ alertMsg' = "Please login first"
            /\ lastSend' = NoSend
            /\ UNCHANGED <<sent, messageInput, transcript>>
       ELSE LET text == SubmitText(messageInput) IN
            IF text = <<>>
            THEN /\ uncaught' = FALSE
                 /\ alertMsg' = ""
                 /\ lastSend' = NoSend
                 /\ UNCHANGED <<sent, messageInput, transcript>>
            ELSE /\ uncaught' = FALSE
                 /\ IF WsIsOpen(ws, readyState)
                    THEN /\ lastSend' = SendCall(ws, readyState, MessageEnvelope(text))
                         /\ sent' = SentAfter(ws, readyState, MessageEnvelope(text))
                         /\ alertMsg' = ""
                    ELSE /\ lastSend' = NoSend
                         /\ sent' = sent
                         /\ alertMsg' = "Not connected to server"
                 /\ transcript' = TranscriptAfterSubmit(text)
                 /\ messageInput' = <<>>
    /\ UNCHANGED <<identityVars, ws, readyState, opened, connEmail, inboundMsgs,
                   memberSearch, timerVars, burstVars, presenceVars>>

(***************************************************************************)
(* Search: the debounced 'input' handler (lines 232-246).                  *)
(***************************************************************************)
clearTimeout(ts, id) == {tm \in ts : tm.id # id}

\* an input handler that cancels nothing
ClearedTimers_NoClear == timers

\* if (onlineDebounce) clearTimeout(onlineDebounce)
ClearedTimers == IF onlineDebounce # 0 THEN clearTimeout(timers, onlineDebounce) ELSE timers

\* a task scheduled with no delay
DebounceTimer_NoDelay(v) == [id |-> nextTimerId, v |-> v, elapsed |-> 0, delay |-> 0]

\* setTimeout(() => {...}, 180): the callback closes over v
DebounceTimer(v) == [id |-> nextTimerId, v |-> v, elapsed |-> 0, delay |-> DebounceDelay]

SearchInput(t) ==
    /\ started
    /\ memberSearch' = t
    /\ timers' = ClearedTimers \cup {DebounceTimer(trim(t))}
    /\ onlineDebounce' = nextTimerId
    /\ nextTimerId' = nextTimerId + 1
    /\ sinceInput' = 0
    /\ lastInput' = t
    /\ IF sinceInput >= DebounceDelay
       THEN \* a new burst starts
            /\ changes' = 1
            /\ burstSends' = 0
            /\ burstOpen' = WsIsOpen(ws, readyState)
       ELSE /\ changes' = changes + 1
            /\ burstSends' = burstSends
            /\ burstOpen' = (burstOpen /\ WsIsOpen(ws, readyState))
    /\ lastOp' = "searchInput"
    /\ lastFrame' = NoFrame
    /\ UNCHANGED activeElement
    /\ alertMsg' = ""
    /\ uncaught' = FALSE
    /\ lastSend' = NoSend
    /\ UNCHANGED <<identityVars, connVars, composerVars, lastSearch, presenceVars>>

Min(a, b) == IF a < b THEN a ELSE b

\* time passes
Advance(d) ==
    /\ ~(timers = {} /\ sinceInput >= DebounceDelay)
    /\ timers' = {[tm EXCEPT !.elapsed = Min(tm.elapsed + d, DebounceDelay)] : tm \in timers}
    /\ sinceInput' = Min(sinceInput + d, DebounceDelay)
    /\ lastOp' = "advance"
    /\ lastFrame' = NoFrame
    /\ UNCHANGED activeElement
    /\ alertMsg' = ""
    /\ uncaught' = FALSE
    /\ lastSend' = NoSend
    /\ UNCHANGED <<identityVars, connVars, composerVars, memberSearch, onlineDebounce,
                   nextTimerId, lastInput, changes, burstSends, burstOpen, lastSearch,
                   presenceVars>>

\* the timer callback (lines 235-245) of a task that is due
DebounceFire(tm) ==
    /\ tm \in timers
    /\ tm.elapsed >= tm.delay
    /\ timers' = timers \ {tm}
    /\ lastOp' = "debounce"
    /\ lastFrame' = NoFrame
    /\ UNCHANGED activeElement
    /\ alertMsg' = ""
    /\ IF WsIsOpen(ws, readyState)
       THEN IF me.isNull
            THEN /\ uncaught' = TRUE
                 /\ lastSend' = NoSend
                 /\ UNCHANGED <<sent, burstSends, lastSearch, fetches>>
            ELSE /\ uncaught' = FALSE
                 /\ lastSend' = SendCall(ws, readyState, SearchEnvelope(tm.v))
                 /\ sent' = SentAfter(ws, readyState, SearchEnvelope(tm.v))
                 /\ burstSends' = burstSends + 1
                 /\ lastSearch' = [query |-> tm.v, since |-> sinceInput]
                 /\ fetchAndRenderOnline(TRUE, tm.v)
       ELSE /\ uncaught' = FALSE
            /\ lastSend' = NoSend
            /\ fetchAndRenderOnline(TRUE, tm.v)
            /\ UNCHANGED <<sent, burstSends, lastSearch>>
    /\ UNCHANGED <<identityVars, ws, readyState, opened, connEmail, composerVars,
                   memberSearch, onlineDebounce, nextTimerId, sinceInput, lastInput,
                   changes, burstOpen, rendered, lastDone>>

(***************************************************************************)
(* Inbound frames (the 'message' listener, lines 65-78).  A frame is an    *)
(* unparseable text ("garbage"), the JSON text null, or an object with a   *)
(* type: "message", "search" or another one.                               *)
(***************************************************************************)
\* frames on which JSON.parse or data.type throws
Malformed == {"garbage", "null"}

\* a listener that shuts the socket when a frame cannot be read
ReadyStateAfterFrame_CloseOnError(s, frame) ==
    IF frame.kind \in Malformed THEN [readyState EXCEPT ![s] = "CLOSED"] ELSE readyState

\* the listener catches what the frame makes it throw and only logs (line 77):
\* the socket is left as it is
ReadyStateAfterFrame(s, frame) == readyState

\* a transcript that marks every entry as the user's own
meFlag_Always(email) == TRUE

\* meFlag: data.email === me.email (line 69)
meFlag(email) == email = me.email

\* a mirror that raises the 'input' event of the search field
TimersAfterMirror_Input(query) == ClearedTimers \cup {DebounceTimer(trim(query))}

\* memberSearch.value = data.query (line 73): a value set by script raises no
\* 'input' event, so the debounce handler does not run
TimersAfterMirror(query) == timers

\* a listener that mirrors every search envelope, its own included
IsRemote_Any(from) == TRUE

\* data.from !== me.email (line 70)
IsRemote(from) == from # me.email

\* email and name of the message envelopes received: a member with a display
\* name, one whose envelope has no name, and an envelope with neither field
Senders ==
    { [email |-> "a@x.com", name |-> "Al"],
      [email |-> "b@x.com", name |-> Undefined],
      [email |-> Undefined, name |-> Undefined] }

Frames(texts) ==
    { Frame(k, Undefined, Undefined, <<>>) : k \in {"garbage", "null", "other"} }
    \cup { Frame("message", m.email, m.name, t) : m \in Senders, t \in texts }
    \cup { Frame("search", e, Undefined, t) : e \in Emails \cup {Undefined}, t \in texts }

SocketMessage(s, frame) ==
    /\ s \in 1..Len(readyState)
    /\ readyState[s] = "OPEN"
    /\ lastOp' = "message"
    /\ UNCHANGED activeElement
    /\ alertMsg' = ""
    /\ uncaught' = FALSE         \* everything is inside try { } catch
    /\ lastSend' = NoSend
    /\ lastFrame' = [sock |-> s, frame |-> frame,
                     afterDrop |-> lastFrame.sock = s /\ lastFrame.frame.kind \in Malformed]
    /\ readyState' = ReadyStateAfterFrame(s, frame)
    /\ inboundMsgs' = IF frame.kind = "message" THEN inboundMsgs + 1 ELSE inboundMsgs
    /\ IF frame.kind \in Malformed \cup {"other"} \/ me.isNull
       THEN \* JSON.parse, data.type or me.email threw and was caught; or no branch
            UNCHANGED <<transcript, memberSearch, fetches>>
       ELSE IF frame.kind = "message"
       THEN /\ transcript' = addMessage(frame.email, frame.name, frame.text,
                                        meFlag(frame.email))
            /\ UNCHANGED <<memberSearch, fetches>>
       ELSE IF IsRemote(frame.email)
       THEN /\ memberSearch' = frame.text
            /\ fetchAndRenderOnline(TRUE, frame.text)
            /\ UNCHANGED transcript
       ELSE UNCHANGED <<transcript, memberSearch, fetches>>
    /\ timers' = IF frame.kind = "search" /\ ~me.isNull /\ IsRemote(frame.email)
                 THEN TimersAfterMirror(frame.text) ELSE timers
    /\ TrackBurst(ws, readyState')
    /\ UNCHANGED <<identityVars, ws, opened, connEmail, sent, messageInput,
                   onlineDebounce, nextTimerId,
                   sinceInput, lastInput, changes, burstSends, lastSearch, rendered, lastDone>>

(***************************************************************************)
(* Presence: fetchOnline, renderOnline and the continuation of             *)
(* fetchAndRenderOnline after its await.                                   *)
(***************************************************************************)
\* String.prototype.toLowerCase on the letters of the model
LowerChar(c) == IF c = "A" THEN "a" ELSE IF c = "B" THEN "b" ELSE c

\* a comparison that keeps the case
toLowerCase_Identity(s) == s

toLowerCase(s) == [i \in 1..Len(s) |-> LowerChar(s[i])]

\* String.prototype.includes
includes(s, sub) ==
    \E i \in 1..(Len(s) + 1) :
        /\ i + Len(sub) - 1 <= Len(s)
        /\ SubSeq(s, i, i + Len(sub) - 1) = sub

\* fetchOnline(): [] unless the response is ok and its body is an array
fetchOnline(resp) == IF resp.ok /\ resp.isArray THEN resp.data ELSE <<>>

\* a render that appends to what the list shows
renderOnline_NoClear(list, f) ==
    [placeholder |-> FALSE, rows |-> rendered.rows \o list]

\* renderOnline(list, filter); f.hasFilter is FALSE when filter is undefined
renderOnline(list, f) ==
    LET noFilter == ~f.hasFilter \/ f.filter = <<>>
        Shown(u) == noFilter \/ (u.email # <<>> /\ includes(toLowerCase(u.email), toLowerCase(f.filter)))
        filtered == SelectSeq(list, Shown)
    IN  IF Len(filtered) = 0
        THEN [placeholder |-> TRUE, rows |-> <<>>]
        ELSE [placeholder |-> FALSE, rows |-> filtered]

RemoveAt(q, i) == SubSeq(q, 1, i - 1) \o SubSeq(q, i + 1, Len(q))

\* the response of the i-th request in flight arrives
FetchComplete(i, resp) ==
    /\ i \in 1..Len(fetches)
    /\ rendered' = renderOnline(fetchOnline(resp), fetches[i])
    /\ lastDone' = [done |-> TRUE, list |-> fetchOnline(resp), f |-> fetches[i]]
    /\ fetches' = RemoveAt([k \in 1..Len(fetches) |->
                               IF k < i THEN [fetches[k] EXCEPT !.overtaken = TRUE]
                               ELSE fetches[k]], i)
    /\ lastOp' = "fetchComplete"
    /\ lastFrame' = NoFrame
    /\ UNCHANGED activeElement
    /\ alertMsg' = ""
    /\ uncaught' = FALSE
    /\ lastSend' = NoSend
    /\ UNCHANGED <<identityVars, connVars, composerVars, memberSearch, timerVars, burstVars>>

(***************************************************************************)
(* Focus, the periodic refresh (lines 268-271) and the click on a member   *)
(* of the list (lines 216-220).                                            *)
(***************************************************************************)
\* the search field gains the focus: the 'focus' listener (line 248)
FocusSearch ==
    /\ started
    /\ activeElement # "memberSearch"
    /\ activeElement' = "memberSearch"
    /\ fetchAndRenderOnline(TRUE, trim(memberSearch))
    /\ lastOp' = "focus"
    /\ lastFrame' = NoFrame
    /\ alertMsg' = ""
    /\ uncaught' = FALSE
    /\ lastSend' = NoSend
    /\ UNCHANGED <<identityVars, connVars, composerVars, memberSearch, timerVars,
                   burstVars, rendered, lastDone>>

\* the focus moves to another element (no listener)
FocusElsewhere(el) ==
    /\ started
    /\ activeElement # el
    /\ activeElement' = el
    /\ lastOp' = "blur"
    /\ lastFrame' = NoFrame
    /\ alertMsg' = ""
    /\ uncaught' = FALSE
    /\ lastSend' = NoSend
    /\ UNCHANGED <<identityVars, connVars, composerVars, memberSearch, timerVars,
                   burstVars, presenceVars>>

\* a refresh that runs whatever has the focus
TickSkips_Never == FALSE

\* document.activeElement === memberSearch (line 269); the element exists
TickSkips == activeElement = "memberSearch"

\* one tick of setInterval(..., 8000)
Tick ==
    /\ started
    /\ IF TickSkips
       THEN UNCHANGED fetches
       ELSE fetchAndRenderOnline(TRUE, trim(memberSearch))
    /\ lastOp' = "tick"
    /\ lastFrame' = NoFrame
    /\ UNCHANGED activeElement
    /\ alertMsg' = ""
    /\ uncaught' = FALSE
    /\ lastSend' = NoSend
    /\ UNCHANGED <<identityVars, connVars, composerVars, memberSearch, timerVars,
                   burstVars, rendered, lastDone>>

\* click on the i-th member shown: messageInput.focus(); value = `@${u.email} `
MemberClick(i) ==
    /\ i \in 1..Len(rendered.rows)
    /\ activeElement' = "messageInput"
    /\ messageInput' = <<"@">> \o rendered.rows[i].email \o <<" ">>
    /\ lastOp' = "memberClick"
    /\ lastFrame' = NoFrame
    /\ alertMsg' = ""
    /\ uncaught' = FALSE
    /\ lastSend' = NoSend
    /\ UNCHANGED <<identityVars, connVars, transcript, inboundMsgs, memberSearch,
                   timerVars, burstVars, presenceVars>>

(***************************************************************************)
(* Specifications.  Each one lets the environment raise the events of one  *)
(* part of the client, with inputs from bounded sets.  In all of them the  *)
(* network answers a GET /online before the next event is raised.          *)
(***************************************************************************)
Sockets == 1..Len(readyState)

\* the login button can be clicked while the login modal is shown
LoginReachable == ~loginModalHidden

\* room for one more socket, counting the logins still in flight
SocketRoom(n) == Len(readyState) + loginsPending < n

\* envelopes accepted so far by the first k sockets
RECURSIVE SentTotal(_)
SentTotal(k) == IF k = 0 THEN 0 ELSE Len(sent[k]) + SentTotal(k - 1)

\* room for one more message or search envelope
SendRoom(n) == SentTotal(Len(sent)) < n

\* no GET /online is in flight
Idle == fetches = <<>>

PresenceEntry(email, name) == [email |-> email, name |-> name]

\* answers to GET /online: a failure, and a one-member list
FetchResponses ==
    { [ok |-> FALSE, isArray |-> FALSE, data |-> <<>>],
      [ok |-> TRUE, isArray |-> TRUE, data |-> <<PresenceEntry(<<"a">>, "Al")>>] }

OkResponses == {r \in FetchResponses : r.ok}

\* Join scenario: restore, successful logins, sockets opening and closing, and
\* the three handlers that send (open, composer, debounce).
InitJoin ==
    /\ Init
    /\ saved \in {SavedText("absent", Undefined, Undefined), SavedText("object", "a@x.com", "a")}

NextJoin ==
    \/ Idle /\ Restore
    \/ Idle /\ LoginReachable /\ SocketRoom(MaxSockets) /\ LoginClick(TRUE)
    \/ \E r \in {x \in LoginResponses : x.kind = "json"} : Idle /\ LoginResponse(r)
    \/ \E s \in Sockets : Idle /\ SocketOpen(s)
    \/ \E s \in Sockets : Idle /\ SocketClose(s)
    \/ \E t \in ShortTexts : Idle /\ TypeMessage(t)
    \/ Idle /\ SendRoom(MaxSent) /\ ComposerSubmit
    \/ \E t \in ShortTexts : Idle /\ nextTimerId <= ConnMaxTimers /\ SearchInput(t)
    \/ Idle /\ Advance(DebounceDelay)
    \/ \E tm \in timers : Idle /\ SendRoom(MaxSent) /\ DebounceFire(tm)
    \/ \E r \in OkResponses : FetchComplete(1, r)

SpecJoin == InitJoin /\ [][NextJoin]_vars

\* Connection scenario: the join scenario with the stored sessions that lack
\* an e-mail, failed logins and the closing handshake.
InitConn ==
    /\ Init
    /\ saved \in {SavedText("absent", Undefined, Undefined),
                  SavedText("object", Undefined, Undefined),
                  SavedText("object", "a@x.com", "a")}

NextConn ==
    \/ Idle /\ Restore
    \/ \E c \in BOOLEAN : Idle /\ LoginReachable /\ SocketRoom(MaxSockets) /\ LoginClick(c)
    \/ \E r \in LoginResponses : Idle /\ LoginResponse(r)
    \/ \E s \in Sockets : Idle /\ SocketOpen(s)
    \/ \E s \in Sockets : Idle /\ SocketClosing(s)
    \/ \E s \in Sockets : Idle /\ SocketClose(s)
    \/ \E t \in ShortTexts : Idle /\ TypeMessage(t)
    \/ Idle /\ SendRoom(MaxSent) /\ ComposerSubmit
    \/ \E t \in ShortTexts : Idle /\ nextTimerId <= ConnMaxTimers /\ SearchInput(t)
    \/ Idle /\ Advance(DebounceDelay)
    \/ \E tm \in timers : Idle /\ SendRoom(MaxSent) /\ DebounceFire(tm)
    \/ \E r \in FetchResponses : FetchComplete(1, r)

SpecConn == InitConn /\ [][NextConn]_vars

\* Composer scenario: restore, logins, socket life cycle, typing and submit,
\* and inbound frames.
FrameTexts == {<<"a">>}

FrameRoom(frame, n) == frame.kind = "message" => inboundMsgs < n

InitCompose ==
    /\ Init
    /\ saved.kind \in {"absent", "null", "object"}

NextCompose ==
    \/ Idle /\ Restore
    \/ \E c \in BOOLEAN : Idle /\ LoginReachable /\ SocketRoom(ComposeMaxSockets) /\ LoginClick(c)
    \/ \E r \in LoginResponses : Idle /\ LoginResponse(r)
    \/ \E s \in Sockets : Idle /\ SocketOpen(s)
    \/ \E s \in Sockets : Idle /\ SocketClosing(s)
    \/ \E s \in Sockets : Idle /\ SocketClose(s)
    \/ \E t \in Texts : Idle /\ TypeMessage(t)
    \/ Idle /\ SendRoom(ComposeMaxSent) /\ ComposerSubmit
    \/ \E s \in Sockets, f \in Frames(FrameTexts) : Idle /\ FrameRoom(f, ComposeMaxInbound) /\ SocketMessage(s, f)
    \/ \E r \in OkResponses : FetchComplete(1, r)

SpecCompose == InitCompose /\ [][NextCompose]_vars

\* Inbound scenario: a restored session, with or without an e-mail, or a
\* login; the socket, messages typed and submitted, and inbound frames of
\* every kind.
InitInbound ==
    /\ Init
    /\ saved \in {SavedText("absent", Undefined, Undefined),
                  SavedText("object", Undefined, Undefined),
                  SavedText("object", "a@x.com", "a")}

NextInbound ==
    \/ Idle /\ Restore
    \/ Idle /\ LoginReachable /\ SocketRoom(ComposeMaxSockets) /\ LoginClick(TRUE)
    \/ \E r \in {x \in LoginResponses : x.kind = "json"} : Idle /\ LoginResponse(r)
    \/ \E s \in Sockets : Idle /\ SocketOpen(s)
    \/ \E s \in Sockets : Idle /\ SocketClose(s)
    \/ \E t \in ShortTexts : Idle /\ TypeMessage(t)
    \/ Idle /\ SendRoom(ComposeMaxSent) /\ ComposerSubmit
    \/ \E s \in Sockets, f \in Frames(FrameTexts) :
          Idle /\ FrameRoom(f, MaxInbound) /\ SocketMessage(s, f)
    \/ \E r \in OkResponses : FetchComplete(1, r)

SpecInbound == InitInbound /\ [][NextInbound]_vars

\* Search scenario: a page with no stored session or a valid one, one login,
\* socket life cycle, search input, time and the debounce callback.
InitSearch ==
    /\ Init
    /\ saved \in {SavedText("absent", Undefined, Undefined), SavedText("object", "a@x.com", "a")}

NextSearch ==
    \/ Idle /\ Restore
    \/ \E c \in BOOLEAN : Idle /\ LoginReachable /\ SocketRoom(SearchMaxSockets) /\ LoginClick(c)
    \/ \E r \in LoginResponses : Idle /\ LoginResponse(r)
    \/ \E s \in Sockets : Idle /\ SocketOpen(s)
    \/ \E s \in Sockets : Idle /\ SocketClosing(s)
    \/ \E s \in Sockets : Idle /\ SocketClose(s)
    \/ \E t \in Texts : Idle /\ nextTimerId <= MaxTimers /\ SearchInput(t)
    \/ Idle /\ Advance(TimeStep)
    \/ \E tm \in timers : Idle /\ SendRoom(MaxSent) /\ DebounceFire(tm)
    \/ \E r \in FetchResponses : FetchComplete(1, r)

SpecSearch == InitSearch /\ [][NextSearch]_vars

\* Mirror scenario: one client of a backend that relays every search envelope
\* to all clients, the sender included.  The client searches (input, time,
\* debounce callback) and receives search envelopes: its own, relayed back,
\* and those of other members.
MirrorInputs == {<<"a">>, <<" ", "a">>}

MirrorFrames == {f \in Frames({<<>>, <<"a">>, <<"a", " ">>}) : f.kind # "message"}

InitMirror ==
    /\ Init
    /\ saved \in {SavedText("absent", Undefined, Undefined), SavedText("object", "a@x.com", "a")}

NextMirror ==
    \/ Idle /\ Restore
    \/ Idle /\ LoginReachable /\ SocketRoom(SearchMaxSockets) /\ LoginClick(TRUE)
    \/ \E r \in {x \in LoginResponses : x.kind = "json"} : Idle /\ LoginResponse(r)
    \/ \E s \in Sockets : Idle /\ SocketOpen(s)
    \/ \E s \in Sockets : Idle /\ SocketClose(s)
    \/ \E t \in MirrorInputs : Idle /\ nextTimerId <= MirrorMaxTimers /\ SearchInput(t)
    \/ Idle /\ Advance(DebounceDelay)
    \/ \E tm \in timers : Idle /\ SendRoom(MaxSent) /\ DebounceFire(tm)
    \/ \E s \in Sockets, f \in MirrorFrames : Idle /\ SocketMessage(s, f)
    \/ \E r \in OkResponses : FetchComplete(1, r)

SpecMirror == InitMirror /\ [][NextMirror]_vars

\* Presence scenario: everything that starts a GET /online (socket open,
\* debounce callback, focus, remote-search mirror, periodic refresh), with
\* several requests in flight and their responses arriving in any order.
Ab == PresenceEntry(<<"a", "b">>, "Al")
Bo == PresenceEntry(<<"B">>, "")
NoMail == PresenceEntry(<<>>, "x")

\* answers to GET /online: a failure, a body that is no array, and lists
PresenceResponses ==
    { [ok |-> FALSE, isArray |-> FALSE, data |-> <<>>],
      [ok |-> TRUE, isArray |-> FALSE, data |-> <<>>],
      [ok |-> TRUE, isArray |-> TRUE, data |-> <<>>],
      [ok |-> TRUE, isArray |-> TRUE, data |-> <<Bo, Ab, NoMail>>] }

PresenceInputs == {<<"b", " ">>}

PresenceFrames ==
    {Frame("search", "b@x.com", Undefined, <<"A">>), Frame("search", "a@x.com", Undefined, <<"b">>)}

\* room for one more GET /online in flight
FetchRoom == Len(fetches) < PresenceMaxFetches

InitPresence ==
    /\ Init
    /\ saved = SavedText("object", "a@x.com", "a")

NextPresence ==
    \/ Restore
    \/ \E s \in Sockets : FetchRoom /\ SocketOpen(s)
    \/ FetchRoom /\ FocusSearch
    \/ \E el \in {"body", "messageInput"} : FocusElsewhere(el)
    \/ \E t \in PresenceInputs :
          activeElement = "memberSearch" /\ nextTimerId <= ConnMaxTimers /\ SearchInput(t)
    \/ Advance(DebounceDelay)
    \/ \E tm \in timers : FetchRoom /\ SendRoom(MaxSent) /\ DebounceFire(tm)
    \/ \E s \in Sockets, f \in PresenceFrames : FetchRoom /\ SocketMessage(s, f)
    \/ FetchRoom /\ Tick
    \/ \E i \in 1..Len(rendered.rows) : messageInput = <<>> /\ MemberClick(i)
    \/ \E i \in 1..Len(fetches), r \in PresenceResponses : FetchComplete(i, r)

SpecPresence == InitPresence /\ [][NextPresence]_vars

(***************************************************************************)
(* Properties of the connection scenario.                                  *)
(***************************************************************************)
JoinsOn(s) == {i \in 1..Len(sent[s]) : sent[s][i].type = "join"}

\* C1: on every socket the first envelope accepted is a join envelope, so no
\* message or search envelope precedes the join; and every join handed to
\* send() carries the e-mail of the identity current at that moment.
C1_JoinFirst ==
    /\ \A s \in Sockets : Len(sent[s]) > 0 => sent[s][1].type = "join"
    /\ lastSend.env.type = "join" => lastSend.env.email = me.email

\* a socket carries its join followed by a message and a search envelope
C1_Witness ==
    \E s \in Sockets :
        /\ Len(sent[s]) = 3
        /\ sent[s][1].type = "join"
        /\ {sent[s][2].type, sent[s][3].type} = {"message", "search"}

\* C2: every socket whose 'open' event has fired carries exactly one join.
C2_ExactlyOneJoin == \A s \in opened : Cardinality(JoinsOn(s)) = 1

\* C3: every send() is made on a socket that is OPEN at that moment, and a
\* send() on a socket in another state puts nothing on it.
C3_SendOnlyWhenOpen ==
    /\ lastSend.sock # 0 => lastSend.state = "OPEN"
    /\ lastSend.result # "queued" => lastSend.state # "OPEN"

\* C4: at most one socket is CONNECTING or OPEN at any time.
C4_SingleActive ==
    Cardinality({s \in Sockets : readyState[s] \in {"CONNECTING", "OPEN"}}) <= 1

\* C5: connect() creates no socket while the identity has no e-mail.
C5_NoConnectWithoutEmail == \A s \in Sockets : ~Falsy(connEmail[s])

\* the identity has an e-mail
Authenticated == ~me.isNull /\ ~Falsy(me.email)

\* C16: once the identity has an e-mail, no restore and no login response
\* writes it again: me stays as it is.
C16_IdentityWrittenOnce == [][Authenticated => me' = me]_vars

(***************************************************************************)
(* Properties of the composer scenario.                                    *)
(***************************************************************************)
\* C6: a submit by an authenticated user with non-empty trimmed text while ws
\* is not OPEN sends nothing, alerts the delivery failure and leaves the input
\* as it was; when ws is OPEN the input is cleared.
C6_FailedSubmitKeepsInput ==
    [][ (lastOp' = "submit" /\ Authenticated /\ trim(messageInput) # <<>>) =>
            IF WsIsOpen(ws, readyState)
            THEN messageInput' = <<>>
            ELSE /\ sent' = sent
                 /\ alertMsg' = "Not connected to server"
                 /\ messageInput' = messageInput ]_vars

\* C7: a submit without an authenticated identity, or with text that is empty
\* after trimming, calls send() on no socket and leaves the sockets' envelopes
\* and the transcript unchanged, whatever the state of the connection.
C7_SubmitNeedsIdentityAndText ==
    [][ (lastOp' = "submit" /\ (~Authenticated \/ trim(messageInput) = <<>>)) =>
            (sent' = sent /\ lastSend' = NoSend /\ transcript' = transcript) ]_vars

\* a whitespace-only text was submitted by an authenticated user on an OPEN socket
C7_Witness ==
    /\ lastOp = "submit"
    /\ Authenticated
    /\ WsIsOpen(ws, readyState)
    /\ messageInput # <<>>
    /\ trim(messageInput) = <<>>

MessagesSentOn(s) == {i \in 1..Len(sent[s]) : sent[s][i].type = "message"}

\* C8: the transcript has exactly one entry per inbound message envelope
\* dispatched so far; a submit adds none.
C8_TranscriptIsInbound == Len(transcript) = inboundMsgs

\* a message was sent and is not displayed, while another member's inbound
\* message is
C8_Witness ==
    /\ \E s \in Sockets : MessagesSentOn(s) # {}
    /\ inboundMsgs = 1
    /\ Len(transcript) = 1
    /\ ~transcript[1].meFlag

\* the last handler dispatched an inbound frame of this kind
Dispatched(kind) == lastOp = "message" /\ lastFrame.frame.kind = kind

\* C14: dispatching a frame that cannot be parsed, or that parses to null,
\* raises nothing and leaves the sockets, ws, the transcript, the search field,
\* the fetches in flight and the rendered list as they are; and a message or
\* remote search envelope dispatched right after it on the same socket is
\* handled as usual.
C14_MalformedDropped ==
    /\ [][ (lastOp' = "message" /\ lastFrame'.frame.kind \in Malformed) =>
              /\ ~uncaught'
              /\ UNCHANGED <<connVars, transcript, memberSearch, presenceVars>> ]_vars
    /\ [][ (lastOp' = "message" /\ lastFrame'.afterDrop /\ ~me.isNull) =>
              /\ lastFrame'.frame.kind = "message" =>
                    /\ Len(transcript') = Len(transcript) + 1
                    /\ transcript'[Len(transcript')].text = lastFrame'.frame.text
              /\ (lastFrame'.frame.kind = "search" /\ lastFrame'.frame.email # me.email) =>
                    memberSearch' = lastFrame'.frame.text ]_vars

\* a message envelope that followed a dropped frame on the same socket is in
\* the transcript
C14_Witness ==
    /\ Dispatched("message")
    /\ lastFrame.afterDrop
    /\ readyState[lastFrame.sock] = "OPEN"
    /\ Len(transcript) = 1
    /\ transcript[1].text = lastFrame.frame.text

\* C18: dispatching an inbound message envelope appends one transcript entry
\* with the envelope's email and name, whose meFlag tells whether that email
\* equals the e-mail of the identity at that moment, and leaves the earlier
\* entries as they are.
C18_SelfFlagAtReceipt ==
    [][ (Dispatched("message")' /\ ~me.isNull) =>
            /\ Len(transcript') = Len(transcript) + 1
            /\ SubSeq(transcript', 1, Len(transcript)) = transcript
            /\ transcript'[Len(transcript')].from = lastFrame'.frame.email
            /\ transcript'[Len(transcript')].name = lastFrame'.frame.name
            /\ transcript'[Len(transcript')].meFlag = (lastFrame'.frame.email = me.email) ]_vars

\* the user's own message came back and is marked as theirs, after another
\* member's message that is not
C18_Witness ==
    /\ Dispatched("message")
    /\ Authenticated
    /\ \E s \in Sockets : MessagesSentOn(s) # {}
    /\ Len(transcript) = 2
    /\ transcript[1].from # me.email /\ ~transcript[1].meFlag
    /\ transcriptShown[1].display = transcript[1].from
    /\ transcript[2].from = me.email /\ transcript[2].meFlag
    /\ transcriptShown[2].display = me.name

\* C15: while the stored record is one that cannot be read as an identity
\* (unparseable, or the JSON text null), the client has no identity and no
\* socket after restore, and no handler ends in an exception nothing caught.
C15_UnreadableRestoreIsSilent ==
    (started /\ saved.kind \in {"garbage", "null"}) =>
        /\ ~Authenticated
        /\ Sockets = {}
        /\ ~uncaught

(***************************************************************************)
(* Properties of the search scenario.  A burst is a run of local changes   *)
(* of the search field, each less than DebounceDelay after the one before. *)
(***************************************************************************)
\* C9: within a burst no search envelope is sent while a task is pending; a
\* burst never sends more than one; once its task has run with ws OPEN
\* throughout the burst, exactly one has been sent; and that envelope carries
\* the trimmed text of the last change and left no earlier than DebounceDelay
\* after it.
C9_DebounceCollapse ==
    changes > 0 =>
        /\ timers # {} => burstSends = 0
        /\ burstSends <= 1
        /\ (timers = {} /\ burstOpen) => burstSends = 1
        /\ burstSends = 1 =>
              /\ lastSearch.query = trim(lastInput)
              /\ lastSearch.since >= DebounceDelay

\* a burst of several changes, ws OPEN throughout, collapsed into one envelope
\* whose query is the trimmed last text
C9_Witness ==
    /\ changes >= 2
    /\ burstOpen
    /\ timers = {}
    /\ burstSends = 1
    /\ lastSearch.query # lastInput
    /\ lastSearch.query # <<>>

\* C10: at most one debounce task is pending, and a pending task is the one
\* scheduled last (the one onlineDebounce names): a cancelled task is not
\* pending, so it cannot run.
C10_OnePending ==
    /\ Cardinality(timers) <= 1
    /\ \A tm \in timers : tm.id = onlineDebounce

\* a change of the search field has cancelled the task of the change before it
C10_Witness ==
    /\ changes >= 2
    /\ \E tm \in timers : tm.id >= 2 /\ tm.elapsed > 0

(***************************************************************************)
(* Properties of the mirror scenario.                                      *)
(***************************************************************************)
\* the last handler dispatched a search envelope
SearchFrameDispatched == lastOp = "message" /\ lastFrame.frame.kind = "search"

\* search envelopes the socket s has accepted
SearchesSentOn(s) == {i \in 1..Len(sent[s]) : sent[s][i].type = "search"}

\* C11: dispatching an inbound search envelope whose from equals the e-mail
\* of the local identity leaves the search field as it is, starts no presence
\* fetch and leaves the rendered list as it is.
C11_NoSelfEcho ==
    [][ (SearchFrameDispatched' /\ lastFrame'.frame.email = me.email) =>
            (memberSearch' = memberSearch /\ fetches' = fetches /\ rendered' = rendered) ]_vars

\* the client's own search envelope came back: its query is not the text of
\* the search field, and the field kept its text
C11_Witness ==
    /\ SearchFrameDispatched
    /\ Authenticated
    /\ lastFrame.frame.email = me.email
    /\ \E i \in SearchesSentOn(lastFrame.sock) :
            sent[lastFrame.sock][i].query = lastFrame.frame.text
    /\ memberSearch # lastFrame.frame.text
    /\ fetches = <<>>

\* C12: dispatching an inbound search envelope whose from differs from the
\* e-mail of the local identity sets the search field to the envelope's query
\* and starts one presence fetch whose filter is that query.
C12_RemoteSearchMirrored ==
    [][ (SearchFrameDispatched' /\ lastFrame'.frame.email # me.email) =>
            /\ memberSearch' = lastFrame'.frame.text
            /\ fetches' = Append(fetches, FetchCall(TRUE, lastFrame'.frame.text)) ]_vars

\* another member's query, with a trailing blank, replaced the local text and
\* is the filter of the fetch in flight
C12_Witness ==
    /\ SearchFrameDispatched
    /\ Authenticated
    /\ lastFrame.frame.email \in Emails \ {me.email}
    /\ lastInput = <<" ", "a">>
    /\ memberSearch = <<"a", " ">>
    /\ fetches = <<FetchCall(TRUE, <<"a", " ">>)>>

\* C20: dispatching an inbound frame, a mirrored search envelope included,
\* schedules and cancels no debounce task and calls send() on no socket; so
\* the search envelopes a client has sent never outnumber the debounce tasks
\* it has scheduled and that are no longer pending.
C20_MirrorSendsNothing ==
    /\ [][ lastOp' = "message" =>
              /\ timers' = timers
              /\ onlineDebounce' = onlineDebounce
              /\ nextTimerId' = nextTimerId
              /\ sent' = sent
              /\ lastSend' = NoSend ]_vars
    /\ [](\A s \in Sockets :
              Cardinality(SearchesSentOn(s)) <= nextTimerId - 1 - Cardinality(timers))

\* one debounced search was sent, came back and was followed by another
\* member's search that was mirrored: one search envelope in all
C20_Witness ==
    /\ SearchFrameDispatched
    /\ lastFrame.frame.email \in Emails \ {me.email}
    /\ memberSearch = lastFrame.frame.text
    /\ memberSearch # lastInput
    /\ nextTimerId = 2
    /\ timers = {}
    /\ \E s \in Sockets : Cardinality(SearchesSentOn(s)) = 1

(***************************************************************************)
(* Properties of the presence scenario.                                    *)
(***************************************************************************)
\* C13: a tick of the periodic refresh while the search field has the focus
\* starts no presence fetch and leaves the rendered list as it is; a tick
\* while it has not starts one fetch whose filter is the trimmed text of the
\* search field.
C13_TickSkippedWhileSearching ==
    [][ lastOp' = "tick" =>
            IF activeElement = "memberSearch"
            THEN fetches' = fetches /\ rendered' = rendered
            ELSE /\ fetches' = Append(fetches, FetchCall(TRUE, trim(memberSearch)))
                 /\ rendered' = rendered ]_vars

\* a tick came while the user was typing in the search field, with a debounce
\* task pending: nothing was fetched
C13_Witness ==
    /\ lastOp = "tick"
    /\ activeElement = "memberSearch"
    /\ memberSearch # <<>>
    /\ timers # {}
    /\ fetches = <<>>

\* the email contains the text, compared letter by letter without case
ContainsNoCase(email, text) ==
    \E i \in 1..(Len(email) - Len(text) + 1) :
        \A j \in 1..Len(text) : LowerChar(email[i + j - 1]) = LowerChar(text[j])

ShownWith(u, f) == ~f.hasFilter \/ f.filter = <<>> \/ ContainsNoCase(u.email, f.filter)

\* the entries of list that are shown under f, in the order of list
RECURSIVE ShownEntries(_, _)
ShownEntries(list, f) ==
    IF list = <<>> THEN <<>>
    ELSE (IF ShownWith(Head(list), f) THEN <<Head(list)>> ELSE <<>>)
         \o ShownEntries(Tail(list), f)

\* C17: after a render of entries under a filter the list shows exactly the
\* entries whose email contains the filter without regard to case, in the
\* order of the entries, all of them when the filter is absent or empty; and
\* the placeholder is shown exactly when no entry is.
C17_RenderFilters ==
    lastDone.done =>
        /\ rendered.rows = ShownEntries(lastDone.list, lastDone.f)
        /\ rendered.placeholder = (rendered.rows = <<>>)

\* a filter in lower case selected, from three entries, the two whose email
\* contains it in either case, in their order
C17_Witness ==
    /\ lastDone.done
    /\ lastDone.f.filter = <<"b">>
    /\ lastDone.list = <<Bo, Ab, NoMail>>
    /\ rendered.rows = <<Bo, Ab>>

\* C19: a completion of a presence fetch replaces the rendered list by the
\* render of its entries under the filter the fetch was started with, whatever
\* was rendered before and whichever requests are still in flight; nothing
\* else changes the rendered list.
C19_LastCompletionWins ==
    /\ [](lastDone.done => rendered = renderOnline(lastDone.list, lastDone.f))
    /\ [][ IF lastOp' = "fetchComplete"
           THEN \E i \in 1..Len(fetches) :
                    /\ lastDone'.f = [fetches[i] EXCEPT !.overtaken = lastDone'.f.overtaken]
                    /\ Len(fetches') = Len(fetches) - 1
           ELSE rendered' = rendered /\ lastDone' = lastDone ]_vars

\* a request that a younger one had overtaken completed last: the list shows
\* its entries under its own filter, not the text of the search field
C19_Witness ==
    /\ lastOp = "fetchComplete"
    /\ lastDone.f.overtaken
    /\ lastDone.f.hasFilter
    /\ lastDone.f.filter # trim(memberSearch)
    /\ rendered.rows = <<Bo, Ab>>

====
